---- MODULE Spec2Model ----
(***************************************************************************)
(* Model of class Msg (src/msg.py): terminal size, colour and wrap flags,  *)
(* the prefix stack, the twelve style fields, and the print operations     *)
(* with what they write to their sinks.                                    *)
(*                                                                         *)
(* A Python str is a sequence of one-character strings, so that strip(),   *)
(* join(), upper(), len() and textwrap are computed, not assumed.          *)
(***************************************************************************)
EXTENDS Integers, Sequences, FiniteSets, TLC

\* ------------------------------------------------------------- bounds
\* Largest terminal width / column argument enumerated.
MaxCols == 8
\* Largest row argument enumerated.
MaxRows == 2
\* Longest message text enumerated.
MaxText == 3
\* Deepest prefix stack the prefix_add guard lets the model build.
MaxDepth == 2
\* Largest explicit width handed to line().
MaxWidth == 4
\* Most arguments of one print call in the sink specification.
MaxArgs == 2

\* ------------------------------------------------------------ strings
\* str.isspace for one character of the model's alphabet.
IsSpace(c) == c = " "

\* s.strip() == '' : every character is whitespace (true of the empty string).
IsBlank(s) == \A i \in DOMAIN s : IsSpace(s[i])

\* s[:n] and s[n:] with Python's clamping of n >= 0.
Take(s, n) == SubSeq(s, 1, IF n < Len(s) THEN n ELSE Len(s))
Drop(s, n) == SubSeq(s, (IF n < Len(s) THEN n ELSE Len(s)) + 1, Len(s))

RECURSIVE LStrip(_)
LStrip(s) == IF s # <<>> /\ IsSpace(Head(s)) THEN LStrip(Tail(s)) ELSE s

RECURSIVE RStrip(_)
RStrip(s) ==
  IF s # <<>> /\ IsSpace(s[Len(s)]) THEN RStrip(SubSeq(s, 1, Len(s) - 1)) ELSE s

\* str.strip()
Strip(s) == RStrip(LStrip(s))

\* sep.join(list)
RECURSIVE Join(_, _)
Join(list, sep) ==
  IF list = <<>> THEN <<>>
  ELSE IF Len(list) = 1 THEN list[1]
  ELSE list[1] \o sep \o Join(Tail(list), sep)

\* char * n  (Python gives '' for n <= 0)
RECURSIVE Repeat(_, _)
Repeat(c, n) == IF n <= 0 THEN <<>> ELSE c \o Repeat(c, n - 1)

\* ''.join(chunks)
RECURSIVE Concat(_)
Concat(list) == IF list = <<>> THEN <<>> ELSE Head(list) \o Concat(Tail(list))

\* sum(map(len, chunks))
SumLen(list) == Len(Concat(list))

LowerLetters ==
  <<"a","b","c","d","e","f","g","h","i","j","k","l","m","n","o","p","q","r","s","t","u","v","w","x","y","z">>
UpperLetters ==
  <<"A","B","C","D","E","F","G","H","I","J","K","L","M","N","O","P","Q","R","S","T","U","V","W","X","Y","Z">>

UpperChar(c) ==
  IF \E i \in DOMAIN LowerLetters : LowerLetters[i] = c
  THEN UpperLetters[CHOOSE i \in DOMAIN LowerLetters : LowerLetters[i] = c]
  ELSE c

\* str.upper()
Upper(s) == [i \in DOMAIN s |-> UpperChar(s[i])]

\* All strings over alphabet of length at most n.
Strings(alphabet, n) == UNION {[1..k -> alphabet] : k \in 0..n}

\* ------------------------------------------------------------ colorama
\* An ANSI escape sequence ESC [ code m; "ESC" stands for the character \x1b.
CSI(code) == <<"ESC", "[">> \o code \o <<"m">>

ForeTable ==
  { [name |-> <<"B","L","A","C","K">>, code |-> <<"3","0">>],
    [name |-> <<"R","E","D">>, code |-> <<"3","1">>],
    [name |-> <<"G","R","E","E","N">>, code |-> <<"3","2">>],
    [name |-> <<"Y","E","L","L","O","W">>, code |-> <<"3","3">>],
    [name |-> <<"B","L","U","E">>, code |-> <<"3","4">>],
    [name |-> <<"M","A","G","E","N","T","A">>, code |-> <<"3","5">>],
    [name |-> <<"C","Y","A","N">>, code |-> <<"3","6">>],
    [name |-> <<"W","H","I","T","E">>, code |-> <<"3","7">>],
    [name |-> <<"R","E","S","E","T">>, code |-> <<"3","9">>],
    [name |-> <<"L","I","G","H","T","B","L","A","C","K","_","E","X">>, code |-> <<"9","0">>],
    [name |-> <<"L","I","G","H","T","R","E","D","_","E","X">>, code |-> <<"9","1">>],
    [name |-> <<"L","I","G","H","T","G","R","E","E","N","_","E","X">>, code |-> <<"9","2">>],
    [name |-> <<"L","I","G","H","T","Y","E","L","L","O","W","_","E","X">>, code |-> <<"9","3">>],
    [name |-> <<"L","I","G","H","T","B","L","U","E","_","E","X">>, code |-> <<"9","4">>],
    [name |-> <<"L","I","G","H","T","M","A","G","E","N","T","A","_","E","X">>, code |-> <<"9","5">>],
    [name |-> <<"L","I","G","H","T","C","Y","A","N","_","E","X">>, code |-> <<"9","6">>],
    [name |-> <<"L","I","G","H","T","W","H","I","T","E","_","E","X">>, code |-> <<"9","7">>] }

BackTable ==
  { [name |-> <<"B","L","A","C","K">>, code |-> <<"4","0">>],
    [name |-> <<"R","E","D">>, code |-> <<"4","1">>],
    [name |-> <<"G","R","E","E","N">>, code |-> <<"4","2">>],
    [name |-> <<"Y","E","L","L","O","W">>, code |-> <<"4","3">>],
    [name |-> <<"B","L","U","E">>, code |-> <<"4","4">>],
    [name |-> <<"M","A","G","E","N","T","A">>, code |-> <<"4","5">>],
    [name |-> <<"C","Y","A","N">>, code |-> <<"4","6">>],
    [name |-> <<"W","H","I","T","E">>, code |-> <<"4","7">>],
    [name |-> <<"R","E","S","E","T">>, code |-> <<"4","9">>],
    [name |-> <<"L","I","G","H","T","B","L","A","C","K","_","E","X">>, code |-> <<"1","0","0">>],
    [name |-> <<"L","I","G","H","T","R","E","D","_","E","X">>, code |-> <<"1","0","1">>],
    [name |-> <<"L","I","G","H","T","G","R","E","E","N","_","E","X">>, code |-> <<"1","0","2">>],
    [name |-> <<"L","I","G","H","T","Y","E","L","L","O","W","_","E","X">>, code |-> <<"1","0","3">>],
    [name |-> <<"L","I","G","H","T","B","L","U","E","_","E","X">>, code |-> <<"1","0","4">>],
    [name |-> <<"L","I","G","H","T","M","A","G","E","N","T","A","_","E","X">>, code |-> <<"1","0","5">>],
    [name |-> <<"L","I","G","H","T","C","Y","A","N","_","E","X">>, code |-> <<"1","0","6">>],
    [name |-> <<"L","I","G","H","T","W","H","I","T","E","_","E","X">>, code |-> <<"1","0","7">>] }

StyleTable ==
  { [name |-> <<"B","R","I","G","H","T">>, code |-> <<"1">>],
    [name |-> <<"D","I","M">>, code |-> <<"2">>],
    [name |-> <<"N","O","R","M","A","L">>, code |-> <<"2","2">>],
    [name |-> <<"R","E","S","E","T","_","A","L","L">>, code |-> <<"0">>] }

\* colorama.Fore / colorama.Back / colorama.Style as attribute tables.
Table(color_type) ==
  CASE color_type = "Fore" -> ForeTable
    [] color_type = "Back" -> BackTable
    [] OTHER -> StyleTable

\* hasattr(color_type, name) / getattr(color_type, name)
HasCode(color_type, name) == name \in {e.name : e \in Table(color_type)}
GetCode(color_type, name) ==
  CSI((CHOOSE e \in Table(color_type) : e.name = name).code)

\* colorama.Style.RESET_ALL
RESET_ALL == GetCode("Style", <<"R","E","S","E","T","_","A","L","L">>)

\* Msg._get_color_code: getattr(color_type, color.upper()), and the colour
\* itself when that raises AttributeError.
get_color_code(color, color_type) ==
  LET name == Upper(color)
  IN IF HasCode(color_type, name) THEN GetCode(color_type, name) ELSE color

\* The axis set_colors picks from the key's suffix.
EndsWith(key, suffix) ==
  /\ Len(key) >= Len(suffix)
  /\ SubSeq(key, Len(key) - Len(suffix) + 1, Len(key)) = suffix

ColorTypeOf(key) ==
  IF EndsWith(key, <<"_","f","o","r","e">>) THEN "Fore"
  ELSE IF EndsWith(key, <<"_","b","a","c","k">>) THEN "Back"
  ELSE "Style"

\* ------------------------------------------------------------ textwrap
\* The standard library's textwrap as print_msg calls it (CPython 3.11).
\* textwrap.TextWrapper._split_chunks on text made of words and blanks:
\* maximal runs of whitespace and of non-whitespace, in order.
RECURSIVE SplitChunks(_)
SplitChunks(text) ==
  IF text = <<>> THEN <<>>
  ELSE LET rest == SplitChunks(Tail(text))
       IN IF rest # <<>> /\ (IsSpace(Head(rest)[1]) <=> IsSpace(Head(text)))
          THEN <<(<<Head(text)>> \o Head(rest))>> \o Tail(rest)
          ELSE <<(<<Head(text)>>)>> \o rest

\* The inner loop of _wrap_chunks: move chunks to the current line while
\* they fit in width.
RECURSIVE TakeFit(_, _, _)
TakeFit(chunks, cur_line, width) ==
  IF chunks # <<>> /\ SumLen(cur_line) + Len(Head(chunks)) <= width
  THEN TakeFit(Tail(chunks), Append(cur_line, Head(chunks)), width)
  ELSE [chunks |-> chunks, cur_line |-> cur_line]

\* The outer loop of textwrap.TextWrapper._wrap_chunks with drop_whitespace
\* and break_long_words at their defaults (True) and max_lines None.  One
\* pass maps (chunks, lines) to (chunks, lines); a pass that changes neither
\* repeats for ever, and the call never returns ("hang").
RECURSIVE WrapChunks(_, _, _, _)
WrapChunks(chunks, lines, width, indent) ==
  IF chunks = <<>> THEN [status |-> "ok", lines |-> lines]
  ELSE
    LET dropped == IF IsBlank(Head(chunks)) /\ lines # <<>> THEN Tail(chunks) ELSE chunks
        fit == TakeFit(dropped, <<>>, width)
        long == fit.chunks # <<>> /\ Len(Head(fit.chunks)) > width
        \* _handle_long_word
        space_left == IF width < 1 THEN 1 ELSE width - SumLen(fit.cur_line)
        cur2 == IF long THEN Append(fit.cur_line, Take(Head(fit.chunks), space_left))
                ELSE fit.cur_line
        chunks2 == IF long
                   THEN <<Drop(Head(fit.chunks), space_left)>> \o Tail(fit.chunks)
                   ELSE fit.chunks
        cur3 == IF cur2 # <<>> /\ IsBlank(cur2[Len(cur2)])
                THEN SubSeq(cur2, 1, Len(cur2) - 1) ELSE cur2
        lines2 == IF cur3 # <<>> THEN Append(lines, indent \o Concat(cur3)) ELSE lines
    IN IF chunks2 = chunks /\ lines2 = lines
       THEN [status |-> "hang", lines |-> lines]
       ELSE WrapChunks(chunks2, lines2, width, indent)

\* textwrap.fill(text, width, initial_indent=indent, subsequent_indent=indent,
\* fix_sentence_endings=True): the lines of the result, or ValueError for a
\* width <= 0.  (fix_sentence_endings changes nothing in text without
\* punctuation.)
Fill(text, width, indent) ==
  IF width <= 0 THEN [status |-> "ValueError", lines |-> <<>>]
  ELSE WrapChunks(SplitChunks(text), <<>>, width - Len(indent), indent)

\* What print(s) writes for s = '\n'.join(lines): the lines, each ended by a
\* newline; the empty string gives one empty line.
Printed(lines) == IF lines = <<>> THEN << <<>> >> ELSE lines

\* ------------------------------------------------------- attribute names
msg_fore == <<"m","s","g","_","f","o","r","e">>
msg_back == <<"m","s","g","_","b","a","c","k">>
msg_style == <<"m","s","g","_","s","t","y","l","e">>
info_fore == <<"i","n","f","o","_","f","o","r","e">>
info_back == <<"i","n","f","o","_","b","a","c","k">>
info_style == <<"i","n","f","o","_","s","t","y","l","e">>
warn_fore == <<"w","a","r","n","_","f","o","r","e">>
warn_back == <<"w","a","r","n","_","b","a","c","k">>
warn_style == <<"w","a","r","n","_","s","t","y","l","e">>
error_fore == <<"e","r","r","o","r","_","f","o","r","e">>
error_back == <<"e","r","r","o","r","_","b","a","c","k">>
error_style == <<"e","r","r","o","r","_","s","t","y","l","e">>
K_columns == <<"c","o","l","u","m","n","s">>
K_rows == <<"r","o","w","s">>

StyleFields ==
  { msg_fore, msg_back, msg_style, info_fore, info_back, info_style,
    warn_fore, warn_back, warn_style, error_fore, error_back, error_style }

\* The msg_type tags of info(), warn() and error().
tag_info == <<"i","n","f","o">>
tag_warn == <<"w","a","r","n">>
tag_error == <<"e","r","r","o","r">>

\* The default separator of __init__.
DefaultSeparator == <<":", " ">>

\* The default style arguments of __init__.
DefaultStyles ==
  [f \in StyleFields |->
     CASE f = msg_fore    -> GetCode("Fore", <<"W","H","I","T","E">>)
       [] f = info_fore   -> GetCode("Fore", <<"G","R","E","E","N">>)
       [] f = warn_fore   -> GetCode("Fore", <<"Y","E","L","L","O","W">>)
       [] f = error_fore  -> GetCode("Fore", <<"R","E","D">>)
       [] f = msg_style   -> GetCode("Style", <<"N","O","R","M","A","L">>)
       [] f = info_style  -> GetCode("Style", <<"D","I","M">>)
       [] f = warn_style  -> GetCode("Style", <<"N","O","R","M","A","L">>)
       [] f = error_style -> GetCode("Style", <<"B","R","I","G","H","T">>)
       [] OTHER           -> GetCode("Back", <<"B","L","A","C","K">>)]

\* textwrap_cols when wrapping is off.
NoWrapCols == 65534

\* ---------------------------------------------------------------- state
VARIABLES
  columns,           \* self.columns
  rows,              \* self.rows
  use_color,         \* self.use_color
  use_textwrap,      \* self.use_textwrap
  prefixes,          \* self.prefixes, a list of str
  prefix_separator,  \* self.prefix_separator
  attr,              \* the twelve style attributes, by attribute name
  call,              \* the last call made on the object, its arguments and how it ended
  out                \* what that call wrote, in order: [file, what, text, lines]

vars ==
  <<columns, rows, use_color, use_textwrap, prefixes, prefix_separator, attr, call, out>>

\* A call record; status is "ok", the exception raised, or "hang" for a call
\* that never returns.
Call(op) ==
  [op |-> op, status |-> "ok", num |-> 0, given |-> FALSE, flag |-> "None",
   text |-> <<>>, args |-> <<>>, file |-> "default", kw |-> <<>>]

\* The object can be called again once its last call has returned or raised.
Returned == call.status # "hang"

\* One write to a sink.
Write(file, what, text, lines) ==
  [file |-> file, what |-> what, text |-> text, lines |-> lines]

\* Msg.__init__.  c and r equal to 0 stand for None or 0 ("if not columns");
\* uc is "None", "True" or "False"; term is what get_terminal_size() gives
\* and tty what is_terminal(sys.stdout) gives.
init(c, r, uc, tw, pf, sep, styles, term, tty) ==
  /\ columns = IF c = 0 THEN term[1] ELSE c
  /\ rows = IF r = 0 THEN term[2] ELSE r
  /\ use_color = IF uc = "None" THEN tty ELSE (uc = "True")
  /\ use_textwrap = tw
  /\ prefixes = pf
  /\ prefix_separator = sep
  /\ attr = styles
  /\ call = Call("init")
  /\ out = <<>>

\* set_columns with its check off by one: 0 is accepted.
set_columns_accepts_zero(newcolumns) ==
  /\ Returned
  /\ IF newcolumns < 0
     THEN /\ call' = [Call("set_columns") EXCEPT !.num = newcolumns, !.status = "ValueError"]
          /\ UNCHANGED columns
     ELSE /\ columns' = newcolumns
          /\ call' = [Call("set_columns") EXCEPT !.num = newcolumns]
  /\ out' = <<>>
  /\ UNCHANGED <<rows, use_color, use_textwrap, prefixes, prefix_separator, attr>>

\* Msg.set_columns
set_columns(newcolumns) ==
  /\ Returned
  /\ IF newcolumns <= 0
     THEN /\ call' = [Call("set_columns") EXCEPT !.num = newcolumns, !.status = "ValueError"]
          /\ UNCHANGED columns
     ELSE /\ columns' = newcolumns
          /\ call' = [Call("set_columns") EXCEPT !.num = newcolumns]
  /\ out' = <<>>
  /\ UNCHANGED <<rows, use_color, use_textwrap, prefixes, prefix_separator, attr>>

\* Msg.set_rows
set_rows(newrows) ==
  /\ Returned
  /\ IF newrows <= 0
     THEN /\ call' = [Call("set_rows") EXCEPT !.num = newrows, !.status = "ValueError"]
          /\ UNCHANGED rows
     ELSE /\ rows' = newrows
          /\ call' = [Call("set_rows") EXCEPT !.num = newrows]
  /\ out' = <<>>
  /\ UNCHANGED <<columns, use_color, use_textwrap, prefixes, prefix_separator, attr>>

\* Msg.enable_color.  With None the method calls is_terminal, a name the
\* module does not define: NameError, before anything is assigned.
enable_color(color_enable) ==
  /\ Returned
  /\ IF color_enable = "None"
     THEN /\ call' = [Call("enable_color") EXCEPT !.status = "NameError"]
          /\ out' = <<>>
          /\ UNCHANGED use_color
     ELSE /\ use_color' = (color_enable = "True")
          /\ call' = [Call("enable_color") EXCEPT !.flag = color_enable]
          /\ out' = IF use_color'
                    THEN <<Write("stdout", "reset", RESET_ALL, <<>>)>>
                    ELSE <<>>
  /\ UNCHANGED <<columns, rows, use_textwrap, prefixes, prefix_separator, attr>>

\* Msg.enable_textwrap
enable_textwrap(textwrap_enable) ==
  /\ Returned
  /\ use_textwrap' = IF textwrap_enable = "None" THEN use_textwrap
                     ELSE (textwrap_enable = "True")
  /\ call' = [Call("enable_textwrap") EXCEPT !.flag = textwrap_enable]
  /\ out' = <<>>
  /\ UNCHANGED <<columns, rows, use_color, prefixes, prefix_separator, attr>>

\* hasattr(self, key) for the keys the model passes: the style attributes
\* and the two size attributes.
HasAttr(key) == key \in StyleFields \cup {K_columns, K_rows}

\* The loop of Msg.set_colors over kwargs.items(), in the order given: each
\* known key is assigned at once, the first unknown key raises.  An entry is
\* [key, value, num]; a size key is given the integer num, which
\* _get_color_code returns as it is (int has no upper()).
RECURSIVE SetColorsLoop(_, _)
SetColorsLoop(kw, s) ==
  IF kw = <<>> THEN s
  ELSE LET key == Head(kw).key
           code == get_color_code(Head(kw).value, ColorTypeOf(key))
       IN IF ~HasAttr(key) THEN [s EXCEPT !.status = "ValueError"]
          ELSE IF key = K_columns
          THEN SetColorsLoop(Tail(kw), [s EXCEPT !.columns = Head(kw).num])
          ELSE IF key = K_rows
          THEN SetColorsLoop(Tail(kw), [s EXCEPT !.rows = Head(kw).num])
          ELSE SetColorsLoop(Tail(kw), [s EXCEPT !.attr[key] = code])

\* Msg.set_colors
set_colors(kwargs) ==
  /\ Returned
  /\ \E s \in {SetColorsLoop(kwargs,
                [attr |-> attr, columns |-> columns, rows |-> rows, status |-> "ok"])} :
        /\ attr' = s.attr
        /\ columns' = s.columns
        /\ rows' = s.rows
        /\ call' = [Call("set_colors") EXCEPT !.kw = kwargs, !.status = s.status]
  /\ out' = <<>>
  /\ UNCHANGED <<use_color, use_textwrap, prefixes, prefix_separator>>

\* Msg.prefix_set
prefix_set(newprefix) ==
  /\ Returned
  /\ prefixes' = <<Strip(newprefix)>>
  /\ call' = [Call("prefix_set") EXCEPT !.text = newprefix]
  /\ out' = <<>>
  /\ UNCHANGED <<columns, rows, use_color, use_textwrap, prefix_separator, attr>>

\* Msg.prefix_add
prefix_add(addprefix) ==
  /\ Returned
  /\ Len(prefixes) < MaxDepth
  /\ prefixes' = Append(prefixes, Strip(addprefix))
  /\ call' = [Call("prefix_add") EXCEPT !.text = addprefix]
  /\ out' = <<>>
  /\ UNCHANGED <<columns, rows, use_color, use_textwrap, prefix_separator, attr>>

\* Msg.prefix_pop
prefix_pop ==
  /\ Returned
  /\ prefixes' = IF Len(prefixes) # 0 THEN SubSeq(prefixes, 1, Len(prefixes) - 1)
                 ELSE prefixes
  /\ call' = Call("prefix_pop")
  /\ out' = <<>>
  /\ UNCHANGED <<columns, rows, use_color, use_textwrap, prefix_separator, attr>>

\* ---------------------------------------------------------------- print
\* The rendered prefix with the strip() left out.
RenderedPrefix_unstripped == Join(prefixes, prefix_separator)

\* self.prefix_separator.join(self.prefixes).strip()
RenderedPrefix == Strip(Join(prefixes, prefix_separator))

\* ppref with the msg_type left out.
Ppref_no_tag(msg_type) ==
  IF RenderedPrefix # <<>> THEN RenderedPrefix \o prefix_separator ELSE <<>>

\* ppref of print_msg: the rendered prefix, then msg_type if there is one,
\* each followed by the separator.
Ppref(msg_type) ==
  LET p0 == RenderedPrefix
      p1 == IF msg_type # <<>>
            THEN (IF p0 # <<>> THEN p0 \o prefix_separator ELSE p0) \o msg_type
            ELSE p0
  IN IF p1 # <<>> THEN p1 \o prefix_separator ELSE p1

\* The style-start write of print_msg: f'{back}{fore}{style}'.
StartToken(back, fore, style) == back \o fore \o style

\* The loop of print_msg over args: one print per argument, in order; an
\* argument textwrap does not return for ends the loop with what was
\* written before it.
RECURSIVE PrintBlocks(_, _, _, _, _)
PrintBlocks(args, textwrap_cols, ppref, file, written) ==
  IF args = <<>> THEN [status |-> "ok", out |-> written]
  ELSE LET f == Fill(Head(args), textwrap_cols, ppref)
       IN IF f.status # "ok" THEN [status |-> f.status, out |-> written]
          ELSE PrintBlocks(Tail(args), textwrap_cols, ppref, file,
                           Append(written, Write(file, "block", <<>>, Printed(f.lines))))

\* Msg.print_msg: how the call ends and what it writes.  wrap is "None",
\* "True" or "False"; file "None" is sys.stdout.
print_msg(args, back, fore, style, wrap, file, msg_type) ==
  LET wrap1 == IF wrap = "None" THEN use_textwrap ELSE (wrap = "True")
      file1 == IF file = "None" THEN "stdout" ELSE file
      ppref == Ppref(msg_type)
      start == IF use_color
               THEN <<Write(file1, "start", StartToken(back, fore, style), <<>>)>>
               ELSE <<>>
      textwrap_cols == IF ~wrap1 THEN NoWrapCols ELSE columns
      body == PrintBlocks(args, textwrap_cols, ppref, file1, start)
  IN IF body.status = "ok" /\ use_color
     THEN [status |-> "ok",
           out |-> Append(body.out, Write(file1, "reset", RESET_ALL, <<>>))]
     ELSE body

\* The file parameter of msg() and info(): sys.stdout unless one is passed.
PrimaryFile(file) == IF file = "default" THEN "stdout" ELSE file

\* warn() and error() with the default of msg(): sys.stdout.
SecondaryFile_stdout(file) == IF file = "default" THEN "stdout" ELSE file

\* The file parameter of warn() and error(): sys.stderr unless one is passed.
SecondaryFile(file) == IF file = "default" THEN "stderr" ELSE file

\* The state change common to the print methods: nothing but the sinks.
Emit(op, args, file, r) ==
  /\ call' = [Call(op) EXCEPT !.args = args, !.file = file, !.status = r.status]
  /\ out' = r.out
  /\ UNCHANGED <<columns, rows, use_color, use_textwrap, prefixes, prefix_separator, attr>>

\* Msg.msg
msg(args, file) ==
  /\ Returned
  /\ \E r \in {print_msg(args, attr[msg_back], attr[msg_fore], attr[msg_style],
                         "None", PrimaryFile(file), <<>>)} :
        Emit("msg", args, file, r)

\* Msg.info
info(args, file) ==
  /\ Returned
  /\ \E r \in {print_msg(args, attr[info_back], attr[info_fore], attr[info_style],
                         "None", PrimaryFile(file), tag_info)} :
        Emit("info", args, file, r)

\* Msg.warn
warn(args, file) ==
  /\ Returned
  /\ \E r \in {print_msg(args, attr[warn_back], attr[warn_fore], attr[warn_style],
                         "None", SecondaryFile(file), tag_warn)} :
        Emit("warn", args, file, r)

\* Msg.error
error(args, file) ==
  /\ Returned
  /\ \E r \in {print_msg(args, attr[error_back], attr[error_fore], attr[error_style],
                         "None", SecondaryFile(file), tag_error)} :
        Emit("error", args, file, r)

\* The repetitions of line() with the separator not counted.
LineCols_no_separator(given, cols) ==
  LET c == IF given THEN cols ELSE columns
      ppref_len == Len(RenderedPrefix)
  IN IF ppref_len # 0
     THEN (IF c - ppref_len < 1 THEN 0 ELSE c - ppref_len)
     ELSE c

\* The number of repetitions line() asks for: cols, or self.columns when
\* cols is None (given = FALSE), less the rendered prefix and one separator
\* when the rendered prefix is not empty, and then 0 if below 1.
LineCols(given, cols) ==
  LET c == IF given THEN cols ELSE columns
      ppref_len == Len(RenderedPrefix)
  IN IF ppref_len # 0
     THEN (IF c - (ppref_len + Len(prefix_separator)) < 1 THEN 0
           ELSE c - (ppref_len + Len(prefix_separator)))
     ELSE c

\* Msg.line
line(given, cols, char, file) ==
  /\ Returned
  /\ \E text \in {Repeat(char, LineCols(given, cols))} :
       \E r \in {print_msg(<<text>>, attr[msg_back], attr[msg_fore], attr[msg_style],
                           "None", PrimaryFile(file), <<>>)} :
         /\ call' = [Call("line") EXCEPT !.given = given, !.num = cols, !.text = char,
                                          !.args = <<text>>, !.file = file,
                                          !.status = r.status]
         /\ out' = r.out
  /\ UNCHANGED <<columns, rows, use_color, use_textwrap, prefixes, prefix_separator, attr>>

\* --------------------------------------------------------------- inputs
\* Arguments of the three-valued flag parameters (None, True, False).
Flags == {"None", "True", "False"}

\* What get_terminal_size() can return: a positive size.
TermSizes == (1..MaxCols) \X (1..MaxRows)

\* columns / newcolumns arguments: non-positive and positive integers.
ColArgs == -1..MaxCols

\* rows / newrows arguments.
RowArgs == -1..MaxRows

\* Message texts: words and blanks.
Texts == Strings({"a", " "}, MaxText)

\* Prefix arguments, with and without surrounding blanks, and the empty one.
PrefixArgs == {<<>>, <<"a">>, <<" ","a">>, <<"a"," ">>}

\* Colour arguments of set_colors: a name in lower and in upper case, and a
\* name of no table.
ColorArgs ==
  { <<"r","e","d">>, <<"R","E","D">>, <<"N","O","T","A","C","O","L","O","R">> }

\* A key no attribute of the object has.
K_bogus == <<"b","o","g","u","s">>

\* One keyword argument of set_colors.
Kw(key, value, num) == [key |-> key, value |-> value, num |-> num]

\* Keyword arguments naming a style attribute or the unknown key.
StyleKws ==
  {Kw(k, v, 0) : k \in {msg_fore, info_back, warn_style, K_bogus}, v \in ColorArgs}

\* set_colors calls of one or two keyword arguments (keys are distinct in a
\* Python call).
StyleKwargs ==
  {<<a>> : a \in StyleKws}
    \cup {p \in StyleKws \X StyleKws : p[1].key # p[2].key}

\* set_colors calls naming a size attribute, a style attribute, the unknown key.
SizeKwargs ==
  {<<Kw(K_columns, <<>>, n)>> : n \in {0, MaxCols}}
    \cup {<<Kw(K_rows, <<>>, n)>> : n \in {-1, MaxRows}}
    \cup {<<Kw(error_fore, <<"r","e","d">>, 0)>>, <<Kw(K_bogus, <<"r","e","d">>, 0)>>}

\* Sinks a caller passes: none, the two standard streams, a stream of its own.
Files == {"default", "stdout", "stderr", "buffer"}

\* ------------------------------------------------------- specifications
\* Sizes and flags: any constructor arguments for columns, rows, use_color
\* and use_textwrap, then any sequence of setters.
InitSize ==
  \E c \in ColArgs, r \in RowArgs, uc \in Flags, tw \in BOOLEAN,
     term \in TermSizes, tty \in BOOLEAN :
    init(c, r, uc, tw, <<>>, DefaultSeparator, DefaultStyles, term, tty)

NextSize ==
  \/ \E n \in ColArgs : set_columns(n)
  \/ \E n \in RowArgs : set_rows(n)
  \/ \E e \in Flags : enable_color(e)
  \/ \E e \in Flags : enable_textwrap(e)
  \/ \E kw \in SizeKwargs : set_colors(kw)
  \/ \E s \in {<<"a">>} : prefix_set(s)
  \/ \E s \in {<<"a">>} : prefix_add(s)
  \/ prefix_pop

SpecSize == InitSize /\ [][NextSize]_vars

\* Styles: constructor style arguments given as escape sequences (the
\* defaults) or by name, then any sequence of set_colors calls.
InitStyle ==
  \E mf \in {DefaultStyles[msg_fore], <<"R","E","D">>},
     ws \in {DefaultStyles[warn_style], <<"b","r","i","g","h","t">>} :
    init(MaxCols, MaxRows, "False", TRUE, <<>>, DefaultSeparator,
         [DefaultStyles EXCEPT ![msg_fore] = mf, ![warn_style] = ws],
         <<MaxCols, MaxRows>>, FALSE)

NextStyle ==
  \E kw \in StyleKwargs : set_colors(kw)

SpecStyle == InitStyle /\ [][NextStyle]_vars

\* Prefixes: constructor prefixes and separator, then any sequence of
\* prefix_set, prefix_add and prefix_pop, with msg() and line() showing the
\* rendered prefix.
Separators == {DefaultSeparator, <<">", " ">>}

InitPrefix ==
  \E pf \in {<<>>, << <<" ", "a">> >>}, sep \in Separators, tw \in BOOLEAN :
    init(MaxCols, MaxRows, "False", tw, pf, sep, DefaultStyles,
         <<MaxCols, MaxRows>>, FALSE)

NextPrefix ==
  \/ \E s \in PrefixArgs : prefix_set(s)
  \/ \E s \in PrefixArgs : prefix_add(s)
  \/ prefix_pop
  \/ msg(<< <<"a">> >>, "default")
  \/ line(FALSE, 0, <<"-">>, "default")

SpecPrefix == InitPrefix /\ [][NextPrefix]_vars

\* Sinks and framing: every print method with every sink, colour on and
\* off, at a width textwrap rejects, a width below the prefix length and a
\* width that fits.
SinkArgs == Strings({<<"a">>, <<" ", "a">>}, MaxArgs)

InitSink ==
  \E c \in {-1, 1, MaxCols}, uc \in {"True", "False"} :
    init(c, MaxRows, uc, TRUE, <<>>, DefaultSeparator, DefaultStyles,
         <<MaxCols, MaxRows>>, FALSE)

NextSink ==
  \/ \E a \in SinkArgs, f \in Files : msg(a, f)
  \/ \E a \in SinkArgs, f \in Files : info(a, f)
  \/ \E a \in SinkArgs, f \in Files : warn(a, f)
  \/ \E a \in SinkArgs, f \in Files : error(a, f)
  \/ \E f \in Files : line(FALSE, 0, <<"-">>, f)
  \/ \E e \in {"True", "False"} : enable_color(e)
  \/ \E e \in {"True", "False"} : enable_textwrap(e)

SpecSink == InitSink /\ [][NextSink]_vars

\* Wrapping and rules: every width, wrapping on and off, with and without a
\* prefix stack, texts of words and blanks.
WrapArgs ==
  {<<t>> : t \in Texts}
    \cup { << <<"a", "a", " ", "a">>, <<"a">> >>,
           << <<>>, <<"a", "a", "a">> >>,
           << <<"a", " ", "a">>, <<" ", "a", "a">> >> }

InitWrap ==
  \E c \in ColArgs, tw \in BOOLEAN, term \in {<<MaxCols, MaxRows>>} :
    init(c, MaxRows, "False", tw, <<>>, DefaultSeparator, DefaultStyles, term, FALSE)

NextWrap ==
  \/ \E a \in WrapArgs : msg(a, "default")
  \/ \E a \in WrapArgs : info(a, "default")
  \/ \E a \in WrapArgs : error(a, "default")
  \/ \E g \in BOOLEAN, n \in -1..MaxWidth, c \in {<<"*">>, <<" ">>} :
       line(g, n, c, "default")
  \/ \E s \in {<<>>, <<"a">>} : prefix_set(s)
  \/ \E s \in {<<"a">>} : prefix_add(s)
  \/ prefix_pop

SpecWrap == InitWrap /\ [][NextWrap]_vars

\* =============================================================== claims
\* What the formulas below read off a state.

\* The print methods.
PrintOps == {"msg", "info", "warn", "error"}

\* The text blocks among the writes of the last call, in order.
BlocksOf(writes) == SelectSeq(writes, LAMBDA w : w.what = "block")

StartsWith(s, p) == Len(s) >= Len(p) /\ SubSeq(s, 1, Len(p)) = p

Max(a, b) == IF a >= b THEN a ELSE b

\* The msg_type of a print method.
TagOf(op) ==
  CASE op = "info" -> tag_info
    [] op = "warn" -> tag_warn
    [] op = "error" -> tag_error
    [] OTHER -> <<>>

\* The back, fore and style attributes of a print method.
KindFields(op) ==
  CASE op = "info" -> <<info_back, info_fore, info_style>>
    [] op = "warn" -> <<warn_back, warn_fore, warn_style>>
    [] op = "error" -> <<error_back, error_fore, error_style>>
    [] OTHER -> <<msg_back, msg_fore, msg_style>>

\* The stack joined by the separator, as it is.
Joined == Join(prefixes, prefix_separator)

\* The stack joined by the separator, then trimmed of surrounding blanks.
JoinedTrimmed == Strip(Join(prefixes, prefix_separator))

\* A line prefix made of a rendered prefix and a tag, each followed by the
\* separator when it is not empty.
LinePrefix(rendered, tag) ==
  (IF rendered # <<>> THEN rendered \o prefix_separator ELSE <<>>)
    \o (IF tag # <<>> THEN tag \o prefix_separator ELSE <<>>)

\* Every stack segment, then the tag if any, each followed by the separator.
RECURSIVE EachWithSeparator(_)
EachWithSeparator(list) ==
  IF list = <<>> THEN <<>>
  ELSE Head(list) \o prefix_separator \o EachWithSeparator(Tail(list))

SegmentsPrefix(tag) ==
  EachWithSeparator(IF tag # <<>> THEN Append(prefixes, tag) ELSE prefixes)

\* What the last msg("a") call shows in front of its text.
ShownPrefix ==
  LET l == BlocksOf(out)[1].lines[1] IN SubSeq(l, 1, Len(l) - 1)

AllTrimmed == \A i \in DOMAIN prefixes : Strip(prefixes[i]) = prefixes[i]

\* ------------------------------------------------------------------ C1
\* C1: a set_colors call that raises for an unknown key leaves every style
\* field as it was before the call, whatever keys come before the unknown one.
C1_FailedSetColorsKeepsStyles ==
  [][(call'.op = "set_colors" /\ call'.status = "ValueError") => attr' = attr]_vars

\* ------------------------------------------------------------------ C2
\* C2: in every reachable state columns and rows are integers >= 1, right
\* after construction and after any sequence of setters.
C2_SizesPositive == columns >= 1 /\ rows >= 1

\* ------------------------------------------------------------------ C3
\* C3: set_columns(n) with n > 0 returns with columns = n; with n <= 0 it
\* raises ValueError and columns keeps the value it had before the call.
C3_SetColumns ==
  [][call'.op = "set_columns" =>
       IF call'.num > 0
       THEN call'.status = "ok" /\ columns' = call'.num
       ELSE call'.status = "ValueError" /\ columns' = columns]_vars

\* C3 witness: a set_columns(0) call has raised on an object whose columns
\* an earlier set_columns call had set.
C3_Witness ==
  /\ call.op = "set_columns"
  /\ call.num = 0
  /\ call.status = "ValueError"
  /\ columns = MaxCols

\* ------------------------------------------------------------------ C4
\* C4 as stated: on a stack built by prefix_set, prefix_add and prefix_pop
\* (every segment trimmed), the prefix a msg call shows is the segments
\* joined by the separator (followed by the separator when not empty).
C4_RenderedIsJoin ==
  (call.op = "msg" /\ AllTrimmed) => ShownPrefix = LinePrefix(Joined, <<>>)

\* C4 amended: the rendered prefix is the segments on the stack, in insertion
\* order, joined by the separator and then trimmed of surrounding whitespace;
\* prefix_set leaves the one trimmed segment, prefix_add appends the trimmed
\* segment, prefix_pop removes exactly the last segment and on an empty
\* stack changes nothing and raises nothing; an empty stack renders ''.
C4_RenderedIsTrimmedJoin ==
  /\ [](call.op = "msg" => ShownPrefix = LinePrefix(JoinedTrimmed, <<>>))
  /\ []((call.op = "msg" /\ prefixes = <<>>) => ShownPrefix = <<>>)
  /\ [][/\ call'.op = "prefix_set" => prefixes' = <<Strip(call'.text)>>
        /\ call'.op = "prefix_add" => prefixes' = Append(prefixes, Strip(call'.text))
        /\ call'.op = "prefix_pop" =>
             /\ call'.status = "ok"
             /\ prefixes' = IF prefixes = <<>> THEN <<>>
                            ELSE SubSeq(prefixes, 1, Len(prefixes) - 1)]_vars

\* C4 witness: msg has printed under the stack ['a', ''], whose join ends
\* with a blank.
C4_Witness ==
  /\ call.op = "msg"
  /\ prefixes = << <<"a">>, <<>> >>
  /\ ShownPrefix = <<"a", ":">> \o prefix_separator

\* ------------------------------------------------------------------ C5
\* C5: in every reachable state no element of prefixes has leading or
\* trailing whitespace, the constructor's initial prefixes included.
C5_PrefixesTrimmed == AllTrimmed

\* ------------------------------------------------------------------ C6
\* The repetitions of the text the last line() call built.
LineWidth == IF call.given THEN call.num ELSE columns

C7_Sinks ==
  /\ call.op \in {"msg", "info"} =>
       \A i \in DOMAIN out :
         out[i].file = IF call.file = "default" THEN "stdout" ELSE call.file
  /\ call.op \in {"warn", "error"} =>
       \A i \in DOMAIN out :
         out[i].file = IF call.file = "default" THEN "stderr" ELSE call.file

\* C7 witness: an error call with no sink passed has written its style-start,
\* two blocks and the reset.
C7_Witness ==
  /\ call.op = "error"
  /\ call.file = "default"
  /\ call.status = "ok"
  /\ Len(out) = 4

\* ------------------------------------------------------------------ C8
\* C8: within one print call with colour enabled the writes are the
\* style-start token (back, fore, style) once, one block per argument, the
\* reset token once, in this order; with colour disabled only the blocks.
C8_Framing ==
  call.op \in PrintOps =>
    LET n == Len(call.args)
        k == KindFields(call.op)
    IN IF use_color
       THEN /\ Len(out) = n + 2
            /\ out[1].what = "start"
            /\ out[1].text = attr[k[1]] \o attr[k[2]] \o attr[k[3]]
            /\ \A i \in 2..(n + 1) : out[i].what = "block"
            /\ out[n + 2].what = "reset"
            /\ out[n + 2].text = RESET_ALL
       ELSE /\ Len(out) = n
            /\ \A i \in 1..n : out[i].what = "block"

C10_StoredStylesResolved ==
  \A f \in StyleFields : ~HasCode(ColorTypeOf(f), Upper(attr[f]))
====
